---------------------------- MODULE Spec2Model ----------------------------
(***************************************************************************)
(* Model of kmodules.xyz/resource-metrics: the resource-list arithmetic,   *)
(* the document field extraction helpers, the ResourceCalculatorFuncs      *)
(* adapter and the MongoDB and Redis calculators built on it.              *)
(*                                                                         *)
(* Every operation of the library is a pure function of its arguments, so  *)
(* the state machine is: Init draws the arguments of one call from bounded *)
(* sets, and one action per exported operation applies it and records the  *)
(* outcome.  An outcome is a normal return ("ok"), an explicit error value *)
(* ("err") or a Go run-time panic ("panic").                               *)
(*                                                                         *)
(* Quantities are integers counting micro-units (1 unit = 10^6), so that   *)
(* the milli-unit conversion done by MulResourceList is a real conversion. *)
(* Products are kept far below the int64 range of the code.                *)
(***************************************************************************)
EXTENDS Integers, Sequences, FiniteSets, TLC

VARIABLES family, calc, doc, fields, fn, aggregate, x, y, multiplier, op, result

vars == <<family, calc, doc, fields, fn, aggregate, x, y, multiplier, op, result>>

-----------------------------------------------------------------------------
(* Bounds of the model.                                                    *)

MaxReplicas == 2
MaxShards == 2
MaxMultiplier == 2

-----------------------------------------------------------------------------
(* Resource kinds and pod roles.                                           *)

Kinds == {"cpu", "memory", "storage"}

DefaultPodRole == "default"
ExporterPodRole == "exporter"
InitPodRole == "init"
ShardPodRole == "shard"
PerShardPodRole == "per-shard"
TotalShardPodRole == "total-shard"
ConfigServerPodRole == "config-server"
MongosPodRole == "mongos"

DBModeCluster == "Cluster"

-----------------------------------------------------------------------------
(* resource.Quantity, as an integer number of micro-units.                 *)

MilliPerUnit == 1000
MicroPerMilli == 1000

\* Quantity.MilliValue(): the value in milli-units, rounded away from zero.
MilliValue(q) ==
    IF q >= 0 THEN (q + (MicroPerMilli - 1)) \div MicroPerMilli
              ELSE -(((-q) + (MicroPerMilli - 1)) \div MicroPerMilli)

\* Quantity.SetMilli(m): the quantity worth m milli-units.
SetMilli(m) == m * MicroPerMilli

\* The lexical split of the quantity literals the documents use:
\* <<mantissa, suffix>>; any other text is not a quantity.
QuantityLiteral(s) ==
    CASE s = "100u" -> <<100, "u">>
      [] s = "500m" -> <<500, "m">>
      [] s = "200m" -> <<200, "m">>
      [] s = "50m"  -> <<50, "m">>
      [] s = "1"    -> <<1, "">>
      [] s = "2"    -> <<2, "">>
      [] s = "-1"   -> <<-1, "">>
      [] OTHER      -> <<0, "?">>

\* The scale a suffix stands for, in micro-units.
SuffixScale(suffix) ==
    CASE suffix = "u" -> 1
      [] suffix = "m" -> MicroPerMilli
      [] OTHER        -> MilliPerUnit * MicroPerMilli

\* The value of a split literal.
QuantityOf(lit) ==
    IF lit[2] = "?" THEN [err |-> TRUE, q |-> 0]
    ELSE [err |-> FALSE, q |-> lit[1] * SuffixScale(lit[2])]

\* resource.ParseQuantity on a string.
ParseQuantity(s) == QuantityOf(QuantityLiteral(s))

-----------------------------------------------------------------------------
(* core.ResourceList: a Go map from resource name to Quantity.  nil is the *)
(* nil map; has[k] says whether key k is present; val[k] is its quantity   *)
(* (0 when the key is absent, which is what Cpu()/Memory()/Storage()       *)
(* return for a missing key).                                              *)

NoKey == [k \in Kinds |-> FALSE]
ZeroVal == [k \in Kinds |-> 0]

NilList == [nil |-> TRUE, has |-> NoKey, val |-> ZeroVal]
EmptyList == [nil |-> FALSE, has |-> NoKey, val |-> ZeroVal]

\* ResourceList.Cpu() / Memory() / Storage(): the entry, or a zero quantity.
Get(rl, k) == IF rl.has[k] THEN rl.val[k] ELSE 0

\* result[k] = q on a non-nil map.
Put(rl, k, q) ==
    [nil |-> FALSE, has |-> [rl.has EXCEPT ![k] = TRUE], val |-> [rl.val EXCEPT ![k] = q]]

\* A fresh core.ResourceList{} holding exactly the non-zero entries of v.
NonZeroEntries(v) ==
    [nil |-> FALSE,
     has |-> [k \in Kinds |-> v[k] # 0],
     val |-> v]

AddResourceList(a, b) ==
    NonZeroEntries([k \in Kinds |-> Get(a, k) + Get(b, k)])

MulResourceList(a, n) ==
    [nil |-> FALSE,
     has |-> [k \in Kinds |-> Get(a, k) # 0],
     val |-> [k \in Kinds |->
                 IF Get(a, k) # 0 THEN SetMilli(MilliValue(Get(a, k)) * n) ELSE 0]]

\* A slip in MaxResourceList: the two lists are added.
MaxAsSum(a, b) == AddResourceList(a, b)

MaxResourceList(a, b) ==
    NonZeroEntries([k \in Kinds |->
                       IF Get(a, k) >= Get(b, k) THEN Get(a, k) ELSE Get(b, k)])

\* rr[role] on a Go map: the nil list when the role is missing.
RoleList(rr, role) == IF role \in DOMAIN rr THEN rr[role] ELSE NilList

RECURSIVE SumRoles(_, _, _)
\* The loop of ResourceListForRoles: the accumulators after roles[1..i].
SumRoles(rr, roles, i) ==
    IF i = 0 THEN ZeroVal
    ELSE LET acc == SumRoles(rr, roles, i - 1)
             rl == RoleList(rr, roles[i])
         IN  [k \in Kinds |-> acc[k] + Get(rl, k)]

ResourceListForRoles(rr, roles) ==
    NonZeroEntries(SumRoles(rr, roles, Len(roles)))

\* The selectors handed around as fn.
ResourceLimits(rr) == rr.limits
ResourceRequests(rr) == rr.requests
Select(f, rr) == IF f = "limits" THEN ResourceLimits(rr) ELSE ResourceRequests(rr)

-----------------------------------------------------------------------------
(* The workload document: a tree of maps, arrays, scalars and nulls        *)
(* (map[string]interface{} after JSON decoding).                           *)

JNull == [t |-> "null"]
JStr(s) == [t |-> "str", s |-> s]
JNum(n) == [t |-> "num", n |-> n]
JArr(a) == [t |-> "arr", a |-> a]
JMap(m) == [t |-> "map", m |-> m]

\* Used only while building documents: a key that is left out of its map.
JAbsent == [t |-> "absent"]
JObj(r) == JMap([k \in {k \in DOMAIN r : r[k].t # "absent"} |-> r[k]])

NotFound == [val |-> JNull, found |-> FALSE, err |-> FALSE]
AccessorError == [val |-> JNull, found |-> FALSE, err |-> TRUE]

RECURSIVE NestedWalk(_, _, _)
\* The loop of unstructured.NestedFieldNoCopy from fields[i] on.
NestedWalk(val, path, i) ==
    IF i > Len(path) THEN [val |-> val, found |-> TRUE, err |-> FALSE]
    ELSE IF val.t = "null" THEN NotFound
    ELSE IF val.t = "map"
         THEN IF path[i] \in DOMAIN val.m
              THEN NestedWalk(val.m[path[i]], path, i + 1)
              ELSE NotFound
    ELSE AccessorError

NestedFieldNoCopy(obj, path) == NestedWalk(obj, path, 1)

\* The typed accessors on what NestedFieldNoCopy returned: (zero, found,
\* err); a present value of another type (null included) is an error.
Int64Of(f) ==
    IF ~f.found \/ f.err THEN [v |-> 0, found |-> f.found, err |-> f.err]
    ELSE IF f.val.t = "num" THEN [v |-> f.val.n, found |-> TRUE, err |-> FALSE]
    ELSE [v |-> 0, found |-> FALSE, err |-> TRUE]

StringOf(f) ==
    IF ~f.found \/ f.err THEN [v |-> "", found |-> f.found, err |-> f.err]
    ELSE IF f.val.t = "str" THEN [v |-> f.val.s, found |-> TRUE, err |-> FALSE]
    ELSE [v |-> "", found |-> FALSE, err |-> TRUE]

MapOf(f) ==
    IF ~f.found \/ f.err THEN [v |-> JNull, found |-> f.found, err |-> f.err]
    ELSE IF f.val.t = "map" THEN [v |-> f.val, found |-> TRUE, err |-> FALSE]
    ELSE [v |-> JNull, found |-> FALSE, err |-> TRUE]

NestedInt64(obj, path) == Int64Of(NestedFieldNoCopy(obj, path))
NestedString(obj, path) == StringOf(NestedFieldNoCopy(obj, path))
NestedMap(obj, path) == MapOf(NestedFieldNoCopy(obj, path))

-----------------------------------------------------------------------------
(* runtime.DefaultUnstructuredConverter.FromUnstructured into the structs  *)
(* the helpers decode.  A missing key and a null value both leave the zero *)
(* value in the destination; a value of the wrong shape is an error.       *)

Field(m, key) == IF key \in DOMAIN m THEN m[key] ELSE JNull

\* A resource.Quantity value: a string or number literal is parsed.
DecodeQuantity(j) ==
    CASE j.t = "null" -> [err |-> FALSE, q |-> 0]
      [] j.t = "str"  -> ParseQuantity(j.s)
      [] j.t = "num"  -> [err |-> FALSE, q |-> j.n * MilliPerUnit * MicroPerMilli]
      [] OTHER        -> [err |-> TRUE, q |-> 0]

\* The map built from the decoded entries d of a JSON map.
ListOfEntries(d) ==
    IF \E k \in DOMAIN d : d[k].err THEN [err |-> TRUE, v |-> NilList]
    ELSE [err |-> FALSE,
          v |-> [nil |-> FALSE,
                 has |-> [k \in Kinds |-> k \in DOMAIN d],
                 val |-> [k \in Kinds |-> IF k \in DOMAIN d THEN d[k].q ELSE 0]]]

\* A core.ResourceList value: null leaves the nil map.
DecodeResourceList(j) ==
    CASE j.t = "null" -> [err |-> FALSE, v |-> NilList]
      [] j.t = "map"  -> ListOfEntries([k \in DOMAIN j.m |-> DecodeQuantity(j.m[k])])
      [] OTHER        -> [err |-> TRUE, v |-> NilList]

NoRequirements == [limits |-> NilList, requests |-> NilList]
RequirementsOf(l, r) ==
    [err |-> l.err \/ r.err, v |-> [limits |-> l.v, requests |-> r.v]]

\* A core.ResourceRequirements value.
DecodeResourceRequirements(j) ==
    CASE j.t = "null" -> [err |-> FALSE, v |-> NoRequirements]
      [] j.t = "map"  -> RequirementsOf(DecodeResourceList(Field(j.m, "limits")),
                                        DecodeResourceList(Field(j.m, "requests")))
      [] OTHER        -> [err |-> TRUE, v |-> NoRequirements]

\* A struct whose only field read afterwards is `resources`:
\* Container and core.PersistentVolumeClaimSpec.
DecodeWithResources(j) ==
    CASE j.t = "null" -> [err |-> FALSE, v |-> NoRequirements]
      [] j.t = "map"  -> DecodeResourceRequirements(Field(j.m, "resources"))
      [] OTHER        -> [err |-> TRUE, v |-> NoRequirements]

\* ofst.PodTemplateSpec, of which spec.resources is read afterwards.
DecodePodTemplate(j) ==
    CASE j.t = "null" -> [err |-> FALSE, v |-> NoRequirements]
      [] j.t = "map"  -> DecodeWithResources(Field(j.m, "spec"))
      [] OTHER        -> [err |-> TRUE, v |-> NoRequirements]

\* The *int64 replicas field.
DecodeReplicas(j) ==
    CASE j.t = "null" -> [err |-> FALSE, nil |-> TRUE, v |-> 0]
      [] j.t = "num"  -> [err |-> FALSE, nil |-> FALSE, v |-> j.n]
      [] OTHER        -> [err |-> TRUE, nil |-> TRUE, v |-> 0]

AppNodeOf(r, p, s) ==
    [err |-> r.err \/ p.err \/ s.err,
     replicasNil |-> r.nil, replicas |-> r.v,
     podResources |-> p.v, storageResources |-> s.v]

\* The AppNode struct, from a map.
DecodeAppNode(m) ==
    AppNodeOf(DecodeReplicas(Field(m, "replicas")),
              DecodePodTemplate(Field(m, "podTemplate")),
              DecodeWithResources(Field(m, "storage")))

-----------------------------------------------------------------------------
(* The extraction helpers.  An outcome is [st, rl, n]: st is "ok", "err"   *)
(* or "panic"; rl the returned list (NilList for a nil return); n the      *)
(* replica count (0 where the helper returns none).                        *)

Outcome(st, rl, n) == [st |-> st, rl |-> rl, n |-> n]
Panic == Outcome("panic", NilList, 0)
Error == Outcome("err", NilList, 0)

\* `if !found || err != nil { return nil, err }`
NotFoundOrError(f) == Outcome(IF f.err THEN "err" ELSE "ok", NilList, 0)

\* `return fn(c.Resources), nil` unless decoding failed.
Selected(f, c) == IF c.err THEN Error ELSE Outcome("ok", Select(f, c.v), 0)

\* ContainerResources and StorageResources after the field is looked up:
\* the unchecked assertion val.(map[string]interface{}) panics on a non-map.
ResourcesAt(nf, f) ==
    IF ~nf.found \/ nf.err THEN NotFoundOrError(nf)
    ELSE IF nf.val.t # "map" THEN Panic
    ELSE Selected(f, DecodeWithResources(nf.val))

ContainerResources(obj, f, path) == ResourcesAt(NestedFieldNoCopy(obj, path), f)

StorageResources(obj, f, path) == ResourcesAt(NestedFieldNoCopy(obj, path), f)

\* A slip in the overlay: the claim's storage is added to the pod template's.
OverlayAdds(rr, sr, replicas) ==
    IF rr.nil THEN Panic
    ELSE Outcome("ok", Put(rr, "storage", Get(rr, "storage") + Get(sr, "storage")),
                 replicas)

\* `rr[core.ResourceStorage] = *sr.Storage()`: a write into rr, which
\* panics when rr is the nil map.
OverlayStorage(rr, sr, replicas) ==
    IF rr.nil THEN Panic
    ELSE Outcome("ok", Put(rr, "storage", Get(sr, "storage")), replicas)

\* AppNodeResources once the node is decoded.
NodeResources(node, f) ==
    IF node.err THEN Error
    ELSE OverlayStorage(Select(f, node.podResources),
                        Select(f, node.storageResources),
                        IF node.replicasNil THEN 1 ELSE node.replicas)

\* AppNodeResources after the field is looked up.
AppNodeAt(nf, f) ==
    IF ~nf.found \/ nf.err THEN NotFoundOrError(nf)
    ELSE IF nf.val.t # "map" THEN Panic
    ELSE NodeResources(DecodeAppNode(nf.val.m), f)

AppNodeResources(obj, f, path) == AppNodeAt(NestedFieldNoCopy(obj, path), f)

Aggregate(agg, a, b) ==
    IF agg = "add" THEN AddResourceList(a, b) ELSE MaxResourceList(a, b)

\* One round of the loop of AggregateContainerResources.
AggregateStep(acc, container, f, agg, c) ==
    IF acc.st # "ok" THEN acc
    ELSE IF container.t # "map" THEN acc
    ELSE IF c.err THEN Error
    ELSE Outcome("ok", Aggregate(agg, acc.rl, Select(f, c.v)), 0)

RECURSIVE AggregateLoop(_, _, _, _)
\* The loop of AggregateContainerResources over containers[1..i].
AggregateLoop(containers, f, agg, i) ==
    IF i = 0 THEN Outcome("ok", EmptyList, 0)
    ELSE AggregateStep(AggregateLoop(containers, f, agg, i - 1), containers[i], f, agg,
                       DecodeWithResources(containers[i]))

AggregateAt(nf, f, agg) ==
    IF ~nf.found \/ nf.err THEN NotFoundOrError(nf)
    ELSE IF nf.val.t # "arr" THEN Error
    ELSE AggregateLoop(nf.val.a, f, agg, Len(nf.val.a))

AggregateContainerResources(obj, f, agg, path) ==
    AggregateAt(NestedFieldNoCopy(obj, path), f, agg)

-----------------------------------------------------------------------------
(* The MongoDB calculator (kubedb.com/v1alpha2).  A role map is a function *)
(* whose domain is the set of roles present in the Go map.                 *)

RoleOutcome(st, m) == [st |-> st, m |-> m]
NoRoles == [r \in {} |-> 0]

MongoDBAppRoles ==
    <<DefaultPodRole, TotalShardPodRole, ConfigServerPodRole, MongosPodRole>>
MongoDBRuntimeRoles ==
    <<DefaultPodRole, TotalShardPodRole, ConfigServerPodRole, MongosPodRole,
      ExporterPodRole>>

\* The sharded branch of MongoDB.roleReplicasFn, on the four counts read.
MongoDBShardedReplicas(shards, shardReplicas, configServerReplicas, mongosReplicas) ==
    IF shards.err \/ shardReplicas.err \/ configServerReplicas.err \/ mongosReplicas.err
    THEN RoleOutcome("err", NoRoles)
    ELSE RoleOutcome("ok",
           (TotalShardPodRole :> shards.v * shardReplicas.v)
           @@ (ShardPodRole :> shards.v)
           @@ (PerShardPodRole :> shardReplicas.v)
           @@ (ConfigServerPodRole :> configServerReplicas.v)
           @@ (MongosPodRole :> mongosReplicas.v))

\* The replica-set or standalone branch, shared with Redis: spec.replicas,
\* 1 when it is not found.
DefaultReplicas(replicas) ==
    IF replicas.err THEN RoleOutcome("err", NoRoles)
    ELSE IF ~replicas.found THEN RoleOutcome("ok", (DefaultPodRole :> 1))
    ELSE RoleOutcome("ok", (DefaultPodRole :> replicas.v))

MongoDBReplicasIn(topology, obj) ==
    IF topology.err THEN RoleOutcome("err", NoRoles)
    ELSE IF topology.found
    THEN MongoDBShardedReplicas(NestedInt64(topology.v, <<"shard", "shards">>),
                                NestedInt64(topology.v, <<"shard", "replicas">>),
                                NestedInt64(topology.v, <<"configServer", "replicas">>),
                                NestedInt64(topology.v, <<"mongos", "replicas">>))
    ELSE DefaultReplicas(NestedInt64(obj, <<"spec", "replicas">>))

MongoDBRoleReplicasFn(obj) ==
    MongoDBReplicasIn(NestedMap(obj, <<"spec", "shardTopology">>), obj)

\* The sharded branch of MongoDB.roleResourceFn, on what was read.
MongoDBShardedResources(shards, shard, configServer, mongos, exporter) ==
    IF shards.err THEN RoleOutcome("err", NoRoles)
    ELSE IF shard.st # "ok" THEN RoleOutcome(shard.st, NoRoles)
    ELSE IF configServer.st # "ok" THEN RoleOutcome(configServer.st, NoRoles)
    ELSE IF mongos.st # "ok" THEN RoleOutcome(mongos.st, NoRoles)
    ELSE RoleOutcome("ok",
           (TotalShardPodRole :> MulResourceList(shard.rl, shards.v * shard.n))
           @@ (ConfigServerPodRole :> MulResourceList(configServer.rl, configServer.n))
           @@ (MongosPodRole :> MulResourceList(mongos.rl, mongos.n))
           @@ (ExporterPodRole :>
                 MulResourceList(exporter,
                                 shards.v * shard.n + configServer.n + mongos.n)))

\* A slip in the default branch: the per-pod lists are returned unscaled.
DefaultResourcesUnscaled(node, exporter, replicas) ==
    RoleOutcome("ok",
        (DefaultPodRole :> MulResourceList(node, 1))
        @@ (ExporterPodRole :> MulResourceList(exporter, 1)))

\* The replica-set or standalone branch, shared with Redis.
DefaultResources(node, exporter, replicas) ==
    RoleOutcome("ok",
        (DefaultPodRole :> MulResourceList(node, replicas))
        @@ (ExporterPodRole :> MulResourceList(exporter, replicas)))

MongoDBPlainResources(node, exporter) ==
    IF node.st # "ok" THEN RoleOutcome(node.st, NoRoles)
    ELSE DefaultResources(node.rl, exporter, node.n)

MongoDBResourcesIn(exporter, topology, f, obj) ==
    IF exporter.st # "ok" THEN RoleOutcome(exporter.st, NoRoles)
    ELSE IF topology.err THEN RoleOutcome("err", NoRoles)
    ELSE IF topology.found
    THEN MongoDBShardedResources(NestedInt64(topology.v, <<"shard", "shards">>),
                                 AppNodeResources(topology.v, f, <<"shard">>),
                                 AppNodeResources(topology.v, f, <<"configServer">>),
                                 AppNodeResources(topology.v, f, <<"mongos">>),
                                 exporter.rl)
    ELSE MongoDBPlainResources(AppNodeResources(obj, f, <<"spec">>), exporter.rl)

MongoDBRoleResourceFn(f, obj) ==
    MongoDBResourcesIn(ContainerResources(obj, f, <<"spec", "monitor", "prometheus">>),
                       NestedMap(obj, <<"spec", "shardTopology">>), f, obj)

-----------------------------------------------------------------------------
(* The Redis calculator (kubedb.com/v1alpha2).                             *)

RedisAppRoles == <<DefaultPodRole>>
RedisRuntimeRoles == <<DefaultPodRole, ExporterPodRole>>

RedisClusterReplicas(shards, shardReplicas) ==
    IF shards.err \/ shardReplicas.err THEN RoleOutcome("err", NoRoles)
    ELSE RoleOutcome("ok",
           (TotalShardPodRole :> shards.v * shardReplicas.v)
           @@ (DefaultPodRole :> shards.v * shardReplicas.v)
           @@ (ShardPodRole :> shards.v)
           @@ (PerShardPodRole :> shardReplicas.v))

RedisReplicasIn(mode, obj) ==
    IF mode.err THEN RoleOutcome("err", NoRoles)
    ELSE IF mode.found /\ mode.v = DBModeCluster
    THEN RedisClusterReplicas(NestedInt64(obj, <<"spec", "cluster", "master">>),
                              NestedInt64(obj, <<"spec", "cluster", "replicas">>))
    ELSE DefaultReplicas(NestedInt64(obj, <<"spec", "replicas">>))

RedisRoleReplicasFn(obj) == RedisReplicasIn(NestedString(obj, <<"spec", "mode">>), obj)

RedisClusterResources(node, exporter, shards, shardReplicas) ==
    IF shards.err \/ shardReplicas.err THEN RoleOutcome("err", NoRoles)
    ELSE DefaultResources(node, exporter, shards.v * shardReplicas.v)

RedisResourcesIn(exporter, node, mode, obj) ==
    IF exporter.st # "ok" THEN RoleOutcome(exporter.st, NoRoles)
    ELSE IF node.st # "ok" THEN RoleOutcome(node.st, NoRoles)
    ELSE IF mode.err THEN RoleOutcome("err", NoRoles)
    ELSE IF mode.found /\ mode.v = DBModeCluster
    THEN RedisClusterResources(node.rl, exporter.rl,
                               NestedInt64(obj, <<"spec", "cluster", "master">>),
                               NestedInt64(obj, <<"spec", "cluster", "replicas">>))
    ELSE DefaultResources(node.rl, exporter.rl, node.n)

RedisRoleResourceFn(f, obj) ==
    RedisResourcesIn(ContainerResources(obj, f, <<"spec", "monitor", "prometheus">>),
                     AppNodeResources(obj, f, <<"spec">>),
                     NestedString(obj, <<"spec", "mode">>), obj)

-----------------------------------------------------------------------------
(* ResourceCalculatorFuncs.  A calculator is a record: its role lists and  *)
(* its plugin, which is MongoDB, Redis or a stub whose three functions     *)
(* return the outcomes held in the record (any plugin, as far as the       *)
(* adapter can tell).                                                      *)

Calculator(name, appRoles, runtimeRoles, replicas, limits, requests) ==
    [name |-> name, AppRoles |-> appRoles, RuntimeRoles |-> runtimeRoles,
     stubReplicas |-> replicas, stubLimits |-> limits, stubRequests |-> requests]

NoStub == RoleOutcome("ok", NoRoles)

MongoDBResourceCalculator ==
    Calculator("MongoDB", MongoDBAppRoles, MongoDBRuntimeRoles, NoStub, NoStub, NoStub)

RedisResourceCalculator ==
    Calculator("Redis", RedisAppRoles, RedisRuntimeRoles, NoStub, NoStub, NoStub)

RoleReplicas(c, obj) ==
    CASE c.name = "MongoDB" -> MongoDBRoleReplicasFn(obj)
      [] c.name = "Redis"   -> RedisRoleReplicasFn(obj)
      [] OTHER              -> c.stubReplicas

\* c.RoleResourceLimitsFn or c.RoleResourceRequestsFn, by selector.
RoleResourceFn(c, f, obj) ==
    CASE c.name = "MongoDB" -> MongoDBRoleResourceFn(f, obj)
      [] c.name = "Redis"   -> RedisRoleResourceFn(f, obj)
      [] OTHER              -> IF f = "limits" THEN c.stubLimits ELSE c.stubRequests

RoleResourceLimits(c, obj) == RoleResourceFn(c, "limits", obj)
RoleResourceRequests(c, obj) == RoleResourceFn(c, "requests", obj)

RECURSIVE CountRoles(_, _, _)
\* The loop of Replicas: cnt after roles[1..i]; a missing role reads as 0.
CountRoles(replicas, roles, i) ==
    IF i = 0 THEN 0
    ELSE CountRoles(replicas, roles, i - 1)
         + (IF roles[i] \in DOMAIN replicas THEN replicas[roles[i]] ELSE 0)

RECURSIVE CountAll(_, _)
CountAll(replicas, roles) ==
    IF roles = {} THEN 0
    ELSE LET role == CHOOSE r \in roles : TRUE
         IN  replicas[role] + CountAll(replicas, roles \ {role})

\* A slip in Replicas: every role of the replica map is counted.
ReplicasOfEveryRole(c, replicas) ==
    IF replicas.st # "ok" THEN Outcome(replicas.st, NilList, 0)
    ELSE Outcome("ok", NilList, CountAll(replicas.m, DOMAIN replicas.m))

ReplicasOf(c, replicas) ==
    IF replicas.st # "ok" THEN Outcome(replicas.st, NilList, 0)
    ELSE Outcome("ok", NilList, CountRoles(replicas.m, c.AppRoles, Len(c.AppRoles)))

Replicas(c, obj) == ReplicasOf(c, RoleReplicas(c, obj))

\* A slip in the totals: the init phase is left out.
TotalOfRuntimeOnly(c, rr) ==
    IF rr.st # "ok" THEN Outcome(rr.st, NilList, 0)
    ELSE Outcome("ok", ResourceListForRoles(rr.m, c.RuntimeRoles), 0)

\* A slip in the app aggregates: the runtime roles are summed.
AppOfRuntimeRoles(c, rr) ==
    IF rr.st # "ok" THEN Outcome(rr.st, NilList, 0)
    ELSE Outcome("ok", ResourceListForRoles(rr.m, c.RuntimeRoles), 0)

\* What TotalResourceLimits and TotalResourceRequests do with the role map.
TotalOf(c, rr) ==
    IF rr.st # "ok" THEN Outcome(rr.st, NilList, 0)
    ELSE Outcome("ok",
                 MaxResourceList(ResourceListForRoles(rr.m, c.RuntimeRoles),
                                 ResourceListForRoles(rr.m, <<InitPodRole>>)),
                 0)

\* What AppResourceLimits and AppResourceRequests do with the role map.
AppOf(c, rr) ==
    IF rr.st # "ok" THEN Outcome(rr.st, NilList, 0)
    ELSE Outcome("ok", ResourceListForRoles(rr.m, c.AppRoles), 0)

TotalResourceLimits(c, obj) == TotalOf(c, RoleResourceLimits(c, obj))
TotalResourceRequests(c, obj) == TotalOf(c, RoleResourceRequests(c, obj))
AppResourceLimits(c, obj) == AppOf(c, RoleResourceLimits(c, obj))
AppResourceRequests(c, obj) == AppOf(c, RoleResourceRequests(c, obj))

-----------------------------------------------------------------------------
(* The arguments the calls are drawn from.                                 *)

Selectors == {"limits", "requests"}

\* Resource lists for the arithmetic: the nil map, and every map whose
\* entries (explicit zeros included) take these quantities.
ListQuantities == {0, 100, 500000}
Lists ==
    {NilList} \cup
    {[nil |-> FALSE, has |-> h, val |-> [k \in Kinds |-> IF h[k] THEN v[k] ELSE 0]] :
        h \in [Kinds -> BOOLEAN], v \in [Kinds -> ListQuantities]}
Multipliers == (-1) .. MaxMultiplier

\* A resource-list section (limits or requests) of a document.
RLJ(c, m, s) == JObj([cpu |-> c, memory |-> m, storage |-> s])
FullSection == RLJ(JStr("500m"), JStr("1"), JStr("2"))
ClaimSection == RLJ(JAbsent, JAbsent, JStr("1"))
PodSections ==
    {JAbsent, JNull, JStr("abc"),
     RLJ(JStr("abc"), JAbsent, JAbsent), RLJ(JNull, JStr("1"), JAbsent)}
    \cup {RLJ(c, m, s) : c \in {JAbsent, JStr("500m"), JStr("100u")},
                         m \in {JAbsent, JStr("1")},
                         s \in {JAbsent, JStr("2")}}

Resources(l, r) == JObj([resources |-> JObj([limits |-> l, requests |-> r])])
PodTemplate(l, r) == JObj([spec |-> Resources(l, r)])

PodTemplates ==
    {JAbsent, JStr("abc")}
    \cup {PodTemplate(l, r) : l \in PodSections, r \in {JAbsent, FullSection}}
Storages ==
    {JAbsent, JNum(3)}
    \cup {Resources(l, r) : l \in {JAbsent, ClaimSection, RLJ(JAbsent, JAbsent, JAbsent)},
                            r \in {JAbsent, ClaimSection}}
NodeReplicas ==
    {JAbsent, JNull, JStr("abc")} \cup {JNum(n) : n \in 0 .. MaxReplicas}

AppNode(rep, pod, sto) == JObj([replicas |-> rep, podTemplate |-> pod, storage |-> sto])
AppNodes == {AppNode(rep, pod, sto) : rep \in NodeReplicas, pod \in PodTemplates,
                                      sto \in Storages}

Scalars == {JNull, JStr("abc"), JNum(3), JArr(<< >>)}
Containers ==
    {JObj([resources |-> JStr("abc")]), JObj([resources |-> JNull])}
    \cup {Resources(l, r) : l \in {JAbsent, JStr("abc"), FullSection},
                            r \in {JAbsent, RLJ(JStr("100u"), JAbsent, JAbsent)}}
ContainerLists ==
    {JArr(<<c>>) : c \in Containers}
    \cup {JArr(<<Resources(FullSection, FullSection), e, c>>) :
             e \in {JStr("abc"), JNull, Resources(ClaimSection, JAbsent)},
             c \in Containers}

Holder(v) == JObj([node |-> v])

\* spec.monitor of a database document.
ExporterContainer == Resources(RLJ(JStr("50m"), JAbsent, JAbsent),
                               RLJ(JStr("50m"), JAbsent, JAbsent))
Monitors ==
    {JAbsent, JStr("abc"),
     JObj([prometheus |-> ExporterContainer]),
     JObj([prometheus |-> JNull]),
     JObj([prometheus |-> JStr("abc")]),
     JObj([prometheus |-> Resources(JStr("abc"), JAbsent)])}

DBPodTemplates ==
    {JAbsent,
     PodTemplate(RLJ(JStr("500m"), JStr("1"), JAbsent), JAbsent),
     PodTemplate(JAbsent, RLJ(JStr("500m"), JStr("1"), JAbsent)),
     PodTemplate(RLJ(JStr("500m"), JStr("1"), JAbsent), RLJ(JStr("100u"), JAbsent, JStr("2"))),
     PodTemplate(RLJ(JStr("-1"), JAbsent, JAbsent), RLJ(JStr("-1"), JAbsent, JAbsent))}
DBStorages == {JAbsent, Resources(ClaimSection, ClaimSection)}
DBReplicas == {JAbsent, JNull} \cup {JNum(n) : n \in (-1) .. MaxReplicas}

BothSections == PodTemplate(RLJ(JStr("200m"), JAbsent, JAbsent),
                            RLJ(JStr("200m"), JStr("1"), JAbsent))

\* A MongoDB document without spec.shardTopology.
MongoDBPlain(rep, pod, sto, mon) ==
    JObj([spec |-> JObj([replicas |-> rep, podTemplate |-> pod, storage |-> sto,
                         monitor |-> mon])])

\* A MongoDB document with spec.shardTopology.
MongoDBSharded(shards, shardRep, shardPod, csRep, mongos, mon) ==
    JObj([spec |-> JObj([
        shardTopology |-> JObj([
            shard |-> JObj([shards |-> shards, replicas |-> shardRep,
                            podTemplate |-> shardPod,
                            storage |-> Resources(ClaimSection, ClaimSection)]),
            configServer |-> JObj([replicas |-> csRep, podTemplate |-> BothSections,
                                   storage |-> Resources(ClaimSection, ClaimSection)]),
            mongos |-> mongos]),
        monitor |-> mon])])

MongoDBDocs ==
    {JObj([spec |-> JAbsent]), JObj([spec |-> JStr("abc")]),
     JObj([spec |-> JObj([shardTopology |-> JNull])]),
     JObj([spec |-> JObj([shardTopology |-> JObj([shard |-> JAbsent])])])}
    \cup {MongoDBPlain(rep, pod, sto, mon) :
             rep \in DBReplicas, pod \in DBPodTemplates, sto \in DBStorages,
             mon \in Monitors}
    \cup {MongoDBSharded(shards, shardRep, shardPod, csRep, mongos, mon) :
             shards \in {JAbsent} \cup {JNum(n) : n \in (-1) .. MaxShards},
             shardRep \in {JAbsent} \cup {JNum(n) : n \in (-1) .. MaxReplicas},
             shardPod \in {BothSections,
                           PodTemplate(JAbsent, RLJ(JStr("200m"), JAbsent, JAbsent))},
             csRep \in {JAbsent} \cup {JNum(n) : n \in 1 .. MaxReplicas},
             mongos \in {JAbsent, JObj([podTemplate |-> BothSections]),
                         JObj([replicas |-> JNum(MaxReplicas),
                               podTemplate |-> BothSections])},
             mon \in {JAbsent, JObj([prometheus |-> ExporterContainer])}}

\* A Redis document.
RedisDoc(mode, cluster, rep, pod, sto, mon) ==
    JObj([spec |-> JObj([mode |-> mode, cluster |-> cluster, replicas |-> rep,
                         podTemplate |-> pod, storage |-> sto, monitor |-> mon])])

RedisDocs ==
    {JObj([spec |-> JAbsent]), JObj([spec |-> JNull])}
    \cup {RedisDoc(mode, JAbsent, rep, pod, sto, mon) :
             mode \in {JAbsent, JStr("Standalone"), JNum(3)},
             rep \in DBReplicas, pod \in DBPodTemplates, sto \in DBStorages,
             mon \in {JAbsent, JObj([prometheus |-> ExporterContainer]),
                      JObj([prometheus |-> JNull])}}
    \cup {RedisDoc(JStr(DBModeCluster), cluster, rep, pod, JAbsent, mon) :
             cluster \in {JAbsent, JObj([master |-> JStr("abc")])}
                         \cup {JObj([master |-> m, replicas |-> r]) :
                                  m \in {JAbsent} \cup {JNum(n) : n \in (-1) .. MaxShards},
                                  r \in {JAbsent} \cup {JNum(n) : n \in 1 .. MaxReplicas}},
             rep \in {JAbsent, JNum(MaxReplicas)},
             pod \in {BothSections,
                      PodTemplate(JAbsent, RLJ(JStr("200m"), JAbsent, JAbsent))},
             mon \in {JAbsent, JObj([prometheus |-> ExporterContainer])}}

\* Stub plugins: the roles a stub may list and the outcomes it may return.
StubRoles == {DefaultPodRole, ExporterPodRole, InitPodRole}
RoleLists ==
    {<< >>} \cup {<<a>> : a \in StubRoles} \cup {<<a, b>> : a, b \in StubRoles}
RuntimeRoleLists ==
    {<<DefaultPodRole, ExporterPodRole>>, <<DefaultPodRole>>,
     <<ExporterPodRole, InitPodRole>>}
StubLists ==
    {[nil |-> FALSE, has |-> [k \in Kinds |-> TRUE],
      val |-> [cpu |-> 500000, memory |-> 100, storage |-> 0]],
     [nil |-> FALSE, has |-> [k \in Kinds |-> k # "storage"],
      val |-> [cpu |-> 100, memory |-> 1000000, storage |-> 0]]}
RoleMaps(values) ==
    UNION {[present -> values] : present \in SUBSET StubRoles}
StubResources ==
    {RoleOutcome("err", NoRoles)}
    \cup {RoleOutcome("ok", m) : m \in RoleMaps(StubLists)}
StubReplicas ==
    {RoleOutcome("err", NoRoles)}
    \cup {RoleOutcome("ok", m) : m \in RoleMaps(0 .. MaxReplicas)}
FixedResources ==
    RoleOutcome("ok", (DefaultPodRole :> EmptyList))

NoCalculator == Calculator("none", << >>, << >>, NoStub, NoStub, NoStub)
NoOutcome == Outcome("none", NilList, 0)

-----------------------------------------------------------------------------
(* The state machine.                                                      *)

Idle ==
    /\ op = "none"
    /\ result = NoOutcome

InitArith ==
    /\ family \in {"add-max", "mul"}
    /\ x \in Lists
    /\ IF family = "add-max" THEN y \in Lists /\ multiplier = 0
                             ELSE y = NilList /\ multiplier \in Multipliers
    /\ calc = NoCalculator /\ doc = JNull /\ fields = << >> /\ fn = "limits"

InitExtract ==
    /\ family = "extract"
    /\ \/ /\ doc \in {Holder(v) : v \in Scalars \cup AppNodes \cup Containers
                                        \cup ContainerLists}
          /\ fields = <<"node">>
       \/ /\ doc \in {Holder(v) : v \in Scalars \cup {JObj([missing |-> JNull])}}
          /\ fields \in {<<"missing">>, <<"node", "missing">>}
    /\ fn \in Selectors
    /\ calc = NoCalculator /\ x = NilList /\ y = NilList /\ multiplier = 0

InitCalc ==
    /\ \/ /\ family = "plugin"
          /\ \/ calc = MongoDBResourceCalculator /\ doc \in MongoDBDocs
             \/ calc = RedisResourceCalculator /\ doc \in RedisDocs
       \/ /\ family = "stub-resources"
          /\ \E app \in RoleLists, run \in RuntimeRoleLists, rr \in StubResources :
                calc \in {Calculator("stub", app, run, NoStub, rr, FixedResources),
                          Calculator("stub", app, run, NoStub, FixedResources, rr)}
          /\ doc = JObj([spec |-> JAbsent])
       \/ /\ family = "stub-replicas"
          /\ \E app \in RoleLists, rep \in StubReplicas :
                calc = Calculator("stub", app, <<DefaultPodRole>>, rep, NoStub, NoStub)
          /\ doc = JObj([spec |-> JAbsent])
    /\ fields = << >> /\ fn = "limits"
    /\ x = NilList /\ y = NilList /\ multiplier = 0

Init ==
    /\ Idle
    /\ aggregate = "add"
    /\ (InitArith \/ InitExtract \/ InitCalc)

Return(name, outcome) ==
    /\ op' = name
    /\ result' = outcome
    /\ UNCHANGED <<family, calc, doc, fields, fn, x, y, multiplier>>

CallAddResourceList ==
    /\ Idle /\ family = "add-max"
    /\ Return("AddResourceList", Outcome("ok", AddResourceList(x, y), 0))
    /\ UNCHANGED aggregate

CallMaxResourceList ==
    /\ Idle /\ family = "add-max"
    /\ Return("MaxResourceList", Outcome("ok", MaxResourceList(x, y), 0))
    /\ UNCHANGED aggregate

CallMulResourceList ==
    /\ Idle /\ family = "mul"
    /\ Return("MulResourceList", Outcome("ok", MulResourceList(x, multiplier), 0))
    /\ UNCHANGED aggregate

CallContainerResources ==
    /\ Idle /\ family = "extract"
    /\ Return("ContainerResources", ContainerResources(doc, fn, fields))
    /\ UNCHANGED aggregate

CallStorageResources ==
    /\ Idle /\ family = "extract"
    /\ Return("StorageResources", StorageResources(doc, fn, fields))
    /\ UNCHANGED aggregate

CallAppNodeResources ==
    /\ Idle /\ family = "extract"
    /\ Return("AppNodeResources", AppNodeResources(doc, fn, fields))
    /\ UNCHANGED aggregate

CallAggregateContainerResources ==
    /\ Idle /\ family = "extract"
    /\ \E agg \in {"add", "max"} :
          /\ aggregate' = agg
          /\ Return("AggregateContainerResources",
                    AggregateContainerResources(doc, fn, agg, fields))

ReplicaFamilies == {"plugin", "stub-replicas"}
ResourceFamilies == {"plugin", "stub-resources"}

CallReplicas ==
    /\ Idle /\ family \in ReplicaFamilies
    /\ Return("Replicas", Replicas(calc, doc))
    /\ UNCHANGED aggregate

CallRoleReplicas ==
    /\ Idle /\ family \in ReplicaFamilies
    /\ Return("RoleReplicas", RoleReplicas(calc, doc))
    /\ UNCHANGED aggregate

CallTotalResourceLimits ==
    /\ Idle /\ family \in ResourceFamilies
    /\ Return("TotalResourceLimits", TotalResourceLimits(calc, doc))
    /\ UNCHANGED aggregate

CallTotalResourceRequests ==
    /\ Idle /\ family \in ResourceFamilies
    /\ Return("TotalResourceRequests", TotalResourceRequests(calc, doc))
    /\ UNCHANGED aggregate

CallAppResourceLimits ==
    /\ Idle /\ family \in ResourceFamilies
    /\ Return("AppResourceLimits", AppResourceLimits(calc, doc))
    /\ UNCHANGED aggregate

CallAppResourceRequests ==
    /\ Idle /\ family \in ResourceFamilies
    /\ Return("AppResourceRequests", AppResourceRequests(calc, doc))
    /\ UNCHANGED aggregate

CallRoleResourceLimits ==
    /\ Idle /\ family \in ResourceFamilies
    /\ Return("RoleResourceLimits", RoleResourceLimits(calc, doc))
    /\ UNCHANGED aggregate

CallRoleResourceRequests ==
    /\ Idle /\ family \in ResourceFamilies
    /\ Return("RoleResourceRequests", RoleResourceRequests(calc, doc))
    /\ UNCHANGED aggregate

Next ==
    \/ CallAddResourceList
    \/ CallMaxResourceList
    \/ CallMulResourceList
    \/ CallContainerResources
    \/ CallStorageResources
    \/ CallAppNodeResources
    \/ CallAggregateContainerResources
    \/ CallReplicas
    \/ CallRoleReplicas
    \/ CallTotalResourceLimits
    \/ CallTotalResourceRequests
    \/ CallAppResourceLimits
    \/ CallAppResourceRequests
    \/ CallRoleResourceLimits
    \/ CallRoleResourceRequests

Spec == Init /\ [][Next]_vars

-----------------------------------------------------------------------------
(* Vocabulary of the properties, written without the operators above.      *)

\* The quantity of kind k that role contributes: zero when the role is not
\* in the map or its list has no such key.
KindOf(rr, role, k) ==
    IF role \in DOMAIN rr /\ rr[role].has[k] THEN rr[role].val[k] ELSE 0

RECURSIVE RoleSum(_, _, _)
\* The sum of kind k over the listed roles.
RoleSum(rr, roles, k) ==
    IF roles = << >> THEN 0
    ELSE KindOf(rr, Head(roles), k) + RoleSum(rr, Tail(roles), k)

RECURSIVE ReplicaSum(_, _)
\* The sum of the replica counts of the listed roles.
ReplicaSum(replicas, roles) ==
    IF roles = << >> THEN 0
    ELSE (IF Head(roles) \in DOMAIN replicas THEN replicas[Head(roles)] ELSE 0)
         + ReplicaSum(replicas, Tail(roles))

Greater(a, b) == IF a >= b THEN a ELSE b
Range(seq) == {seq[i] : i \in DOMAIN seq}
Restrict(m, keys) == [r \in DOMAIN m \cap keys |-> m[r]]

\* The role map the selected role-resource function returns for the call.
RoleResourcesOfCall ==
    IF op \in {"TotalResourceLimits", "AppResourceLimits", "RoleResourceLimits"}
    THEN RoleResourceLimits(calc, doc)
    ELSE RoleResourceRequests(calc, doc)

TotalCalls == {"TotalResourceLimits", "TotalResourceRequests"}
AppCalls == {"AppResourceLimits", "AppResourceRequests"}

\* C1: for every calculator and every document on which the role-resource
\* function succeeds, TotalResourceLimits / TotalResourceRequests return, for
\* each of cpu, memory and storage, the greater of the sum over RuntimeRoles
\* and the init role's value (never the two added), a zero being left out.
C1_TotalIsMaxOfPhases ==
    (op \in TotalCalls /\ RoleResourcesOfCall.st = "ok") =>
        /\ result.st = "ok"
        /\ ~result.rl.nil
        /\ \A k \in Kinds :
              LET runtime == RoleSum(RoleResourcesOfCall.m, calc.RuntimeRoles, k)
                  init == KindOf(RoleResourcesOfCall.m, InitPodRole, k)
              IN  /\ Get(result.rl, k) = Greater(runtime, init)
                  /\ result.rl.has[k] <=> (Greater(runtime, init) # 0)

\* A total was computed where both phases are non-zero for cpu.
C1_Witness ==
    /\ op \in TotalCalls
    /\ result.st = "ok"
    /\ RoleSum(RoleResourcesOfCall.m, calc.RuntimeRoles, "cpu") > 0
    /\ KindOf(RoleResourcesOfCall.m, InitPodRole, "cpu") > 0
    /\ RoleSum(RoleResourcesOfCall.m, calc.RuntimeRoles, "cpu")
         # KindOf(RoleResourcesOfCall.m, InitPodRole, "cpu")

\* C2: AppResourceLimits / AppResourceRequests return the per-kind sum over
\* the roles in AppRoles of the role map with every other role removed: roles
\* outside AppRoles never count and a missing app role counts as zero.
C2_AppIsSumOverAppRoles ==
    (op \in AppCalls /\ RoleResourcesOfCall.st = "ok") =>
        /\ result.st = "ok"
        /\ ~result.rl.nil
        /\ \A k \in Kinds :
              LET app == RoleSum(Restrict(RoleResourcesOfCall.m, Range(calc.AppRoles)),
                                 calc.AppRoles, k)
              IN  /\ Get(result.rl, k) = app
                  /\ result.rl.has[k] <=> (app # 0)

\* An app aggregate was computed from a map that holds a non-zero entry
\* outside AppRoles and lacks one of the app roles.
C2_Witness ==
    /\ op \in AppCalls
    /\ result.st = "ok"
    /\ \E role \in DOMAIN RoleResourcesOfCall.m \ Range(calc.AppRoles) :
          KindOf(RoleResourcesOfCall.m, role, "cpu") # 0
    /\ \E role \in Range(calc.AppRoles) : role \notin DOMAIN RoleResourcesOfCall.m
    /\ Get(result.rl, "cpu") # 0

\* C3: no operation panics: every call ends in a result or an error value.
C3_NoPanic ==
    (op # "none") => result.st \in {"ok", "err"}

ExtractCalls == {"ContainerResources", "StorageResources", "AppNodeResources"}

\* C4: when the path of ContainerResources, StorageResources or
\* AppNodeResources resolves to a value that is not an object, the call
\* returns a decode error and no list; when the path does not exist it
\* returns no error and nothing.
C4_ShapeMismatchIsError ==
    (op \in ExtractCalls) =>
        LET nf == NestedFieldNoCopy(doc, fields)
        IN  /\ (nf.found /\ nf.val.t # "map") => result = Error
            /\ (~nf.found /\ ~nf.err) => result = Outcome("ok", NilList, 0)

ArithmeticCalls == {"AddResourceList", "MaxResourceList", "MulResourceList"}

\* C5: the results of AddResourceList, MaxResourceList and MulResourceList
\* hold no key whose quantity is zero; MulResourceList(x, 0) is empty.
C5_ZeroOmission ==
    (op \in ArithmeticCalls) =>
        /\ \A k \in Kinds : result.rl.has[k] => result.rl.val[k] # 0
        /\ (op = "MulResourceList" /\ multiplier = 0) => result.rl = EmptyList

\* C6: for every document the MongoDB or Redis calculator accepts, negative
\* replica or shard counts included, no quantity of TotalResourceLimits or
\* TotalResourceRequests is negative.
C6_TotalNeverNegative ==
    (family = "plugin" /\ op \in TotalCalls /\ result.st = "ok") =>
        \A k \in Kinds : Get(result.rl, k) >= 0

\* A total was computed from a role map that holds a negative quantity.
C6_Witness ==
    /\ family = "plugin"
    /\ op \in TotalCalls
    /\ result.st = "ok"
    /\ \E role \in DOMAIN RoleResourcesOfCall.m :
          KindOf(RoleResourcesOfCall.m, role, "cpu") < 0

RECURSIVE At(_, _)
\* The value a document holds at a path, read key by key; JAbsent when a
\* key on the way is missing or its parent is no object.
At(j, path) ==
    IF path = << >> THEN j
    ELSE IF j.t = "map" /\ Head(path) \in DOMAIN j.m
         THEN At(j.m[Head(path)], Tail(path))
         ELSE JAbsent

\* A key that holds a quantity literal, and the quantity it denotes.
Declares(j) == j.t = "str" /\ ~ParseQuantity(j.s).err
Declared(j) == ParseQuantity(j.s).q

\* The App Node the extraction call addresses conforms to the AppNode shape.
ConformingNode ==
    /\ At(doc, fields).t = "map"
    /\ ~DecodeAppNode(At(doc, fields).m).err

PodSectionPath == fields \o <<"podTemplate", "spec", "resources", fn>>
ClaimSectionPath == fields \o <<"storage", "resources", fn>>

\* C7: for a conforming App Node whose pod template declares storage X and
\* whose storage claim declares storage Y under the selected section,
\* AppNodeResources returns storage Y, and cpu and memory exactly as the pod
\* template has them.
C7_StorageOverlay ==
    (/\ op = "AppNodeResources"
     /\ ConformingNode
     /\ Declares(At(doc, PodSectionPath \o <<"storage">>))
     /\ Declares(At(doc, ClaimSectionPath \o <<"storage">>))) =>
        /\ result.st = "ok"
        /\ result.rl.has["storage"]
        /\ result.rl.val["storage"] = Declared(At(doc, ClaimSectionPath \o <<"storage">>))
        /\ \A k \in {"cpu", "memory"} :
              LET entry == At(doc, PodSectionPath \o <<k>>)
              IN  /\ result.rl.has[k] <=> (entry.t # "absent")
                  /\ Declares(entry) => result.rl.val[k] = Declared(entry)

\* The overlay happened with X # Y and with a cpu entry in the pod template.
C7_Witness ==
    /\ op = "AppNodeResources"
    /\ ConformingNode
    /\ Declares(At(doc, PodSectionPath \o <<"storage">>))
    /\ Declares(At(doc, ClaimSectionPath \o <<"storage">>))
    /\ Declared(At(doc, PodSectionPath \o <<"storage">>))
         # Declared(At(doc, ClaimSectionPath \o <<"storage">>))
    /\ Declares(At(doc, PodSectionPath \o <<"cpu">>))
    /\ result.st = "ok"

\* C8: AppNodeResources on a conforming App Node returns replica count 1 when
\* `replicas` is absent or null, and n when it is the integer n.
C8_ReplicaDefault ==
    (op = "AppNodeResources" /\ ConformingNode) =>
        /\ result.st = "ok"
        /\ LET replicas == At(doc, fields \o <<"replicas">>)
           IN  result.n = IF replicas.t = "num" THEN replicas.n ELSE 1

IntOrZero(j) == IF j.t = "num" THEN j.n ELSE 0
ShardTopologyPath == <<"spec", "shardTopology">>

\* C9: Replicas is the sum of RoleReplicas over the roles in AppRoles, a role
\* missing from the map counting as zero and no other role counting; when
\* RoleReplicas fails, Replicas fails the same way with count 0.  For a
\* sharded MongoDB it is shards x shard.replicas + configServer.replicas +
\* mongos.replicas.
C9_ReplicasIsSumOverAppRoles ==
    (op = "Replicas") =>
        /\ IF RoleReplicas(calc, doc).st = "ok"
           THEN /\ result.st = "ok"
                /\ result.n = ReplicaSum(Restrict(RoleReplicas(calc, doc).m,
                                                  Range(calc.AppRoles)),
                                         calc.AppRoles)
           ELSE /\ result.st = RoleReplicas(calc, doc).st
                /\ result.n = 0
        /\ (/\ calc.name = "MongoDB"
            /\ At(doc, ShardTopologyPath).t = "map"
            /\ result.st = "ok") =>
               result.n =
                   IntOrZero(At(doc, ShardTopologyPath \o <<"shard", "shards">>))
                     * IntOrZero(At(doc, ShardTopologyPath \o <<"shard", "replicas">>))
                   + IntOrZero(At(doc, ShardTopologyPath \o <<"configServer", "replicas">>))
                   + IntOrZero(At(doc, ShardTopologyPath \o <<"mongos", "replicas">>))

\* Replicas was computed for a sharded MongoDB with every count positive.
C9_Witness ==
    /\ op = "Replicas"
    /\ calc.name = "MongoDB"
    /\ result.st = "ok"
    /\ IntOrZero(At(doc, ShardTopologyPath \o <<"shard", "shards">>)) > 1
    /\ IntOrZero(At(doc, ShardTopologyPath \o <<"shard", "replicas">>)) > 1
    /\ IntOrZero(At(doc, ShardTopologyPath \o <<"configServer", "replicas">>)) > 0
    /\ IntOrZero(At(doc, ShardTopologyPath \o <<"mongos", "replicas">>)) > 0

RequestsPath == <<"spec", "podTemplate", "spec", "resources", "requests">>
ClaimRequestsPath == <<"spec", "storage", "resources", "requests">>

\* The per-pod request of kind k a section declares: zero when it has none.
RequestOf(section, k) ==
    IF section.t = "map" /\ k \in DOMAIN section.m THEN Declared(section.m[k]) ELSE 0

\* A section that is a Resource List: an object of quantity literals, none
\* of them negative.
WellFormedSection(section) ==
    /\ section.t = "map"
    /\ \A k \in DOMAIN section.m : Declares(section.m[k]) /\ Declared(section.m[k]) >= 0

\* The least whole number of milli-units that covers q, in micro-units.
WholeMillis(q) ==
    MicroPerMilli * (CHOOSE m \in 0 .. q :
                        m * MicroPerMilli >= q /\ (m = 0 \/ (m - 1) * MicroPerMilli < q))

\* A non-sharded MongoDB or non-cluster Redis document with spec.replicas an
\* integer n >= 1, requests declared on the pod template, a storage claim
\* that is absent or well formed, and no spec.monitor.
PlainScaledDocument ==
    /\ family = "plugin"
    /\ \/ calc.name = "MongoDB" /\ At(doc, ShardTopologyPath).t = "absent"
       \/ /\ calc.name = "Redis"
          /\ At(doc, <<"spec", "mode">>) \in {JAbsent, JStr("Standalone")}
    /\ At(doc, <<"spec", "replicas">>).t = "num"
    /\ At(doc, <<"spec", "replicas">>).n >= 1
    /\ WellFormedSection(At(doc, RequestsPath))
    /\ \/ At(doc, <<"spec", "storage">>).t = "absent"
       \/ WellFormedSection(At(doc, ClaimRequestsPath))
    /\ At(doc, <<"spec", "monitor">>).t = "absent"

\* C10, as stated: AppResourceRequests is n times r for every kind, and
\* TotalResourceRequests equals AppResourceRequests.
C10_ScalesEveryKind ==
    PlainScaledDocument =>
        /\ (op = "AppResourceRequests") =>
              /\ result.st = "ok"
              /\ \A k \in Kinds :
                    Get(result.rl, k) = At(doc, <<"spec", "replicas">>).n
                                          * RequestOf(At(doc, RequestsPath), k)
        /\ (op = "TotalResourceRequests") =>
              result = AppResourceRequests(calc, doc)

\* C10, amended: AppResourceRequests is, for cpu and memory, n times r
\* rounded up to whole milli-units, and for storage n times the storage
\* claim's request (rounded likewise; none when there is no claim), whatever
\* the pod template says of storage; TotalResourceRequests equals
\* AppResourceRequests.
C10_ScalesCpuMemoryAndClaim ==
    PlainScaledDocument =>
        /\ (op = "AppResourceRequests") =>
              /\ result.st = "ok"
              /\ \A k \in {"cpu", "memory"} :
                    Get(result.rl, k) = At(doc, <<"spec", "replicas">>).n
                                          * WholeMillis(RequestOf(At(doc, RequestsPath), k))
              /\ Get(result.rl, "storage") =
                    At(doc, <<"spec", "replicas">>).n
                      * WholeMillis(RequestOf(At(doc, ClaimRequestsPath), "storage"))
        /\ (op = "TotalResourceRequests") =>
              result = AppResourceRequests(calc, doc)

\* App requests were computed for n > 1 pods with a non-zero cpu request.
C10_Witness ==
    /\ PlainScaledDocument
    /\ op = "AppResourceRequests"
    /\ At(doc, <<"spec", "replicas">>).n > 1
    /\ RequestOf(At(doc, RequestsPath), "cpu") > 0
    /\ RequestOf(At(doc, ClaimRequestsPath), "storage") > 0
    /\ result.st = "ok"

\* The selector of a role-resource call, and the App Node each MongoDB
\* application role is read from.
SelectorOfCall == IF op = "RoleResourceLimits" THEN "limits" ELSE "requests"
NodePathOf(role) ==
    CASE role = TotalShardPodRole   -> <<"spec", "shardTopology", "shard">>
      [] role = ConfigServerPodRole -> <<"spec", "shardTopology", "configServer">>
      [] role = MongosPodRole       -> <<"spec", "shardTopology", "mongos">>
      [] OTHER                      -> <<"spec">>
PerPodResources(role) == AppNodeResources(doc, SelectorOfCall, NodePathOf(role)).rl

\* C11: for every document on which RoleReplicas and the role-resource
\* function of the MongoDB calculator both succeed, each application role's
\* entry in RoleResourceLimits / RoleResourceRequests is that role's per-pod
\* list multiplied by the role's count in RoleReplicas, also when a
\* `replicas` field of shard, configServer or mongos is absent.
C11_MultiplierIsRoleReplicas ==
    (/\ family = "plugin" /\ calc.name = "MongoDB"
     /\ op \in {"RoleResourceLimits", "RoleResourceRequests"}
     /\ result.st = "ok"
     /\ RoleReplicas(calc, doc).st = "ok") =>
        \A role \in Range(MongoDBAppRoles) \cap DOMAIN result.m :
            /\ role \in DOMAIN RoleReplicas(calc, doc).m
            /\ result.m[role] = MulResourceList(PerPodResources(role),
                                                RoleReplicas(calc, doc).m[role])

=============================================================================
